---------------------------- MODULE Spec2Model ----------------------------
(***************************************************************************)
(* Cache-backed retrieval layer of environmental_dashboard.                *)
(*                                                                         *)
(* The model covers the fetchers of environmental_dashboard/api_handler.py *)
(* (get_usgs_json_data, get_usgs_rdb_data: cache path derived from the     *)
(* URL) and the script-level copies in main.py and site_info.py (cache     *)
(* path supplied by the caller).  Texts are sequences of one-character     *)
(* strings; the JSON decoder/encoder and the RDB table reader are computed *)
(* on those texts the way json.load / json.dump(indent=4) and              *)
(* pandas.read_csv(sep='\t', comment='#') followed by iloc[1:] compute     *)
(* them.                                                                   *)
(***************************************************************************)
EXTENDS Integers, Sequences, FiniteSets, TLC

VARIABLES files, dirs, last, keys, origin, procs

vars == <<files, dirs, last, keys, origin, procs>>

(***************************************************************************)
(* Bounds of the model.                                                    *)
(***************************************************************************)
\* longest text of the exhaustively enumerated JSON response bodies
MaxLen == 3

(***************************************************************************)
(* Characters.                                                             *)
(***************************************************************************)
NL == "\n"
SP == " "
TAB == "\t"
\* a byte that the text codec of open(path, 'r') cannot decode
BadByte == "<ff>"

\* whitespace skipped by the json decoder (json.decoder.WHITESPACE)
JsonWs == {SP, NL, TAB}

Digits == <<"0", "1", "2", "3", "4", "5", "6", "7", "8", "9">>
DigitChars == {Digits[i] : i \in 1..10}
DigitVal(c) == (CHOOSE i \in 1..10 : Digits[i] = c) - 1

(***************************************************************************)
(* Python values.  None is both the absence value returned by the fetchers *)
(* and the decoding of the JSON literal null.                              *)
(***************************************************************************)
None == [t |-> "None"]
PyInt(n) == [t |-> "int", n |-> n]
PyStr(s) == [t |-> "str", s |-> s]
PyList(xs) == [t |-> "list", items |-> xs]
\* a dict: its (key, value) pairs in insertion order, keys unique
PyDict(kvs) == [t |-> "dict", pairs |-> kvs]

(***************************************************************************)
(* json.load: the decoder.                                                 *)
(***************************************************************************)
\* first index >= i that holds no whitespace (Len(t)+1 at the end of text)
SkipWs(t, i) ==
    CHOOSE j \in i..(Len(t) + 1) :
        /\ \A k \in i..(j - 1) : t[k] \in JsonWs
        /\ (j = Len(t) + 1 \/ t[j] \notin JsonWs)

\* end of the run of digits starting at i
DigitsEnd(t, i) ==
    CHOOSE j \in i..(Len(t) + 1) :
        /\ \A k \in i..(j - 1) : t[k] \in DigitChars
        /\ (j = Len(t) + 1 \/ t[j] \notin DigitChars)

RECURSIVE IntOf(_)
IntOf(ds) ==
    IF ds = <<>> THEN 0
    ELSE 10 * IntOf(SubSeq(ds, 1, Len(ds) - 1)) + DigitVal(ds[Len(ds)])

ParseFail(i) == [ok |-> FALSE, val |-> None, end |-> i]
ParseOk(v, j) == [ok |-> TRUE, val |-> v, end |-> j]

IsAt(t, i, lit) ==
    /\ i + Len(lit) - 1 <= Len(t)
    /\ SubSeq(t, i, i + Len(lit) - 1) = lit

\* scanstring: i is the index after the opening quote.  Control characters
\* are rejected (strict mode); no escape sequences occur in the alphabet.
ScanString(t, i) ==
    IF \E j \in i..Len(t) : t[j] = "\""
    THEN LET j == CHOOSE j \in i..Len(t) :
                      t[j] = "\"" /\ \A k \in i..(j - 1) : t[k] # "\""
         IN IF \E k \in i..(j - 1) : t[k] \in {NL, TAB}
            THEN ParseFail(i)
            ELSE ParseOk(SubSeq(t, i, j - 1), j + 1)
    ELSE ParseFail(i)

\* dict(pairs): a repeated key keeps its first position and its last value
PutPair(kvs, k, v) ==
    IF \E n \in 1..Len(kvs) : kvs[n][1] = k
    THEN [n \in 1..Len(kvs) |-> IF kvs[n][1] = k THEN <<k, v>> ELSE kvs[n]]
    ELSE Append(kvs, <<k, v>>)

RECURSIVE ScanOnce(_, _), JSONArray(_, _, _), JSONObject(_, _, _)

\* scan_once(s, idx): one JSON value starting exactly at idx
ScanOnce(t, i) ==
    IF i > Len(t) THEN ParseFail(i)
    ELSE IF t[i] = "\"" THEN
        LET r == ScanString(t, i + 1)
        IN IF r.ok THEN ParseOk(PyStr(r.val), r.end) ELSE ParseFail(i)
    ELSE IF t[i] = "{" THEN
        LET j == SkipWs(t, i + 1)
        IN IF j > Len(t) THEN ParseFail(i)
           ELSE IF t[j] = "}" THEN ParseOk(PyDict(<<>>), j + 1)
           ELSE JSONObject(t, j, <<>>)
    ELSE IF t[i] = "[" THEN
        LET j == SkipWs(t, i + 1)
        IN IF j > Len(t) THEN ParseFail(i)
           ELSE IF t[j] = "]" THEN ParseOk(PyList(<<>>), j + 1)
           ELSE JSONArray(t, j, <<>>)
    ELSE IF IsAt(t, i, <<"n", "u", "l", "l">>) THEN ParseOk(None, i + 4)
    ELSE IF t[i] = "0" THEN ParseOk(PyInt(0), i + 1)
    ELSE IF t[i] \in DigitChars THEN
        LET j == DigitsEnd(t, i)
        IN ParseOk(PyInt(IntOf(SubSeq(t, i, j - 1))), j)
    ELSE ParseFail(i)

\* JSONArray: i is where the next element must start
JSONArray(t, i, acc) ==
    LET r == ScanOnce(t, i)
    IN IF ~r.ok THEN ParseFail(i)
       ELSE LET j == SkipWs(t, r.end)
            IN IF j > Len(t) THEN ParseFail(j)
               ELSE IF t[j] = "]" THEN ParseOk(PyList(Append(acc, r.val)), j + 1)
               ELSE IF t[j] = ","
                    THEN JSONArray(t, SkipWs(t, j + 1), Append(acc, r.val))
               ELSE ParseFail(j)

\* JSONObject: i is where the next property name (a string) must start
JSONObject(t, i, acc) ==
    IF i > Len(t) \/ t[i] # "\"" THEN ParseFail(i)
    ELSE LET k == ScanString(t, i + 1)
         IN IF ~k.ok THEN ParseFail(i)
            ELSE LET c == SkipWs(t, k.end)
                 IN IF c > Len(t) \/ t[c] # ":" THEN ParseFail(c)
                    ELSE LET r == ScanOnce(t, SkipWs(t, c + 1))
                         IN IF ~r.ok THEN ParseFail(c)
                            ELSE LET j == SkipWs(t, r.end)
                                     kvs == PutPair(acc, k.val, r.val)
                                 IN IF j > Len(t) THEN ParseFail(j)
                                    ELSE IF t[j] = "}"
                                         THEN ParseOk(PyDict(kvs), j + 1)
                                    ELSE IF t[j] = ","
                                         THEN JSONObject(t, SkipWs(t, j + 1), kvs)
                                    ELSE ParseFail(j)

\* json.loads(s): leading whitespace, one value, trailing whitespace, end
JsonLoads(t) ==
    LET r == ScanOnce(t, SkipWs(t, 1))
    IN IF r.ok /\ SkipWs(t, r.end) = Len(t) + 1
       THEN [ok |-> TRUE, val |-> r.val]
       ELSE [ok |-> FALSE, val |-> None]

(***************************************************************************)
(* json.dump(data, f, indent=4): the encoder.                              *)
(***************************************************************************)
\* indent=4 in json.dump
Indent == 4

RECURSIVE DigitsOf(_)
DigitsOf(n) ==
    IF n < 10 THEN <<Digits[n + 1]>>
    ELSE DigitsOf(n \div 10) \o <<Digits[(n % 10) + 1]>>

Spaces(n) == [i \in 1..n |-> SP]
NewlineIndent(level) == <<NL>> \o Spaces(Indent * level)

\* f.write(str(data)) in place of json.dump: None is written as None
DumpScalar_Repr(v) ==
    IF v.t = "None" THEN <<"N", "o", "n", "e">>
    ELSE IF v.t = "int" THEN DigitsOf(v.n)
    ELSE <<"\"">> \o v.s \o <<"\"">>

\* the encoding of None, an int or a str
DumpScalar(v) ==
    IF v.t = "None" THEN <<"n", "u", "l", "l">>
    ELSE IF v.t = "int" THEN DigitsOf(v.n)
    ELSE <<"\"">> \o v.s \o <<"\"">>

RECURSIVE JsonDumps(_, _), DumpItems(_, _), DumpPairs(_, _)

JsonDumps(v, level) ==
    IF v.t \in {"None", "int", "str"} THEN DumpScalar(v)
    ELSE IF v.t = "list" THEN
        IF v.items = <<>> THEN <<"[", "]">>
        ELSE <<"[">> \o DumpItems(v.items, level + 1)
                     \o NewlineIndent(level) \o <<"]">>
    ELSE \* dict
        IF v.pairs = <<>> THEN <<"{", "}">>
        ELSE <<"{">> \o DumpPairs(v.pairs, level + 1)
                     \o NewlineIndent(level) \o <<"}">>

DumpItems(xs, level) ==
    IF xs = <<>> THEN <<>>
    ELSE NewlineIndent(level) \o JsonDumps(Head(xs), level)
         \o (IF Len(xs) > 1 THEN <<",">> ELSE <<>>)
         \o DumpItems(Tail(xs), level)

DumpPairs(kvs, level) ==
    IF kvs = <<>> THEN <<>>
    ELSE NewlineIndent(level)
         \o <<"\"">> \o Head(kvs)[1] \o <<"\"", ":", SP>>
         \o JsonDumps(Head(kvs)[2], level)
         \o (IF Len(kvs) > 1 THEN <<",">> ELSE <<>>)
         \o DumpPairs(Tail(kvs), level)

(***************************************************************************)
(* pandas.read_csv(src, sep='\t', comment='#') followed by                 *)
(* df.iloc[1:].reset_index(drop=True): the RDB table reader.               *)
(* Cells keep the text of their field (dtype inference is not modelled);   *)
(* an empty or missing field is NaN.  Lines end with "\n"; carriage        *)
(* returns and blanks are not among the characters of the texts read.      *)
(***************************************************************************)
NaN == [t |-> "NaN"]

\* the tokenizer of the C parser, one character at a time: tab is the
\* delimiter, '#' the comment character, '"' the quote character (the
\* default quoting, with doubled quotes), blank lines are skipped.  field
\* is the field being read, rec the fields of the current line, recs the
\* finished lines.  At the end of the text an open quoted field is the
\* error "EOF inside string".
RECURSIVE Tokenize(_, _, _, _, _, _)
Tokenize(t, i, st, field, rec, recs) ==
    LET EndField == Append(rec, field)
        EndLine == Append(recs, Append(rec, field))
    IN IF i > Len(t)
       THEN CASE st \in {"START_RECORD", "EAT_LINE_COMMENT"} ->
                     [ok |-> TRUE, recs |-> recs]
              [] st = "IN_QUOTED_FIELD" -> [ok |-> FALSE, recs |-> recs]
              [] st = "EAT_COMMENT" -> [ok |-> TRUE, recs |-> Append(recs, rec)]
              [] OTHER -> [ok |-> TRUE, recs |-> EndLine]
       ELSE LET c == t[i]
            IN CASE st = "START_RECORD" /\ c = NL ->
                        Tokenize(t, i + 1, "START_RECORD", <<>>, <<>>, recs)
                 [] st = "START_RECORD" /\ c = "#" ->
                        Tokenize(t, i + 1, "EAT_LINE_COMMENT", <<>>, <<>>, recs)
                 [] st = "EAT_LINE_COMMENT" ->
                        Tokenize(t, i + 1,
                                 IF c = NL THEN "START_RECORD" ELSE st,
                                 <<>>, <<>>, recs)
                 [] st = "EAT_COMMENT" ->
                        IF c = NL
                        THEN Tokenize(t, i + 1, "START_RECORD", <<>>, <<>>,
                                      Append(recs, rec))
                        ELSE Tokenize(t, i + 1, st, <<>>, rec, recs)
                 [] st = "IN_QUOTED_FIELD" ->
                        IF c = "\""
                        THEN Tokenize(t, i + 1, "QUOTE_IN_QUOTED_FIELD", field, rec, recs)
                        ELSE Tokenize(t, i + 1, st, Append(field, c), rec, recs)
                 [] st = "QUOTE_IN_QUOTED_FIELD" /\ c = "\"" ->
                        Tokenize(t, i + 1, "IN_QUOTED_FIELD", Append(field, c), rec, recs)
                 [] st \in {"START_RECORD", "START_FIELD"} /\ c = "\"" ->
                        Tokenize(t, i + 1, "IN_QUOTED_FIELD", field, rec, recs)
                 \* START_RECORD, START_FIELD, IN_FIELD, QUOTE_IN_QUOTED_FIELD
                 [] OTHER ->
                        IF c = NL
                        THEN Tokenize(t, i + 1, "START_RECORD", <<>>, <<>>, EndLine)
                        ELSE IF c = TAB
                        THEN Tokenize(t, i + 1, "START_FIELD", <<>>, EndField, recs)
                        ELSE IF c = "#"
                        THEN Tokenize(t, i + 1, "EAT_COMMENT", <<>>, EndField, recs)
                        ELSE Tokenize(t, i + 1, "IN_FIELD", Append(field, c), rec, recs)

\* the records of the text: one sequence of fields per kept line
Records(text) == Tokenize(text, 1, "START_RECORD", <<>>, <<>>, <<>>)

MaxOf(a, b) == IF a >= b THEN a ELSE b

\* column labels: an empty name becomes "Unnamed: i", a repeated name gets
\* the suffix ".k"
ColumnName(header, i) ==
    LET name == header[i]
        k == Cardinality({j \in 1..(i - 1) : header[j] = name})
    IN IF name = <<>> THEN <<"Unnamed: ">> \o DigitsOf(i - 1)
       ELSE IF k = 0 THEN name
       ELSE name \o <<".">> \o DigitsOf(k)

Cell(field) == IF field = <<>> THEN NaN ELSE PyStr(field)

\* a data record as a row of the frame: short records are padded to the
\* table width w, and the leading w - h fields are the implicit index
RowOf(rec, w, h) ==
    [c \in 1..h |-> IF (w - h) + c <= Len(rec) THEN Cell(rec[(w - h) + c])
                    ELSE NaN]

DataFrame(columns, rows) == [t |-> "DataFrame", columns |-> columns, rows |-> rows]

\* pd.read_csv: [ok |-> FALSE, exc] for EmptyDataError / ParserError
ReadCsv(text) ==
    LET recs == Records(text).recs
    IN IF ~Records(text).ok
       THEN [ok |-> FALSE, exc |-> "ParserError", val |-> None]
       ELSE IF recs = <<>>
       THEN [ok |-> FALSE, exc |-> "EmptyDataError", val |-> None]
       ELSE LET header == Head(recs)
                data == Tail(recs)
                h == Len(header)
                w == IF data = <<>> THEN h ELSE MaxOf(h, Len(data[1]))
            IN IF \E k \in 2..Len(data) : Len(data[k]) > w
               THEN [ok |-> FALSE, exc |-> "ParserError", val |-> None]
               ELSE [ok |-> TRUE, exc |-> "none",
                     val |-> DataFrame([i \in 1..h |-> ColumnName(header, i)],
                                       [k \in 1..Len(data) |-> RowOf(data[k], w, h)])]

\* df.iloc[1:].reset_index(drop=True): the first row (the width
\* specification of the RDB double header) is dropped, the rest renumbered
DropFirstRow(df) ==
    DataFrame(df.columns, SubSeq(df.rows, 2, Len(df.rows)))

(***************************************************************************)
(* Requests, cache paths and the file system.                              *)
(***************************************************************************)
\* data_url_generator(sites, values='iv'): two request URLs
UrlA == "https://waterservices.usgs.gov/nwis/iv/?format=json&sites=09163500&period=P365D&siteStatus=all"
UrlB == "https://waterservices.usgs.gov/nwis/iv/?format=json&sites=06611200&period=P365D&siteStatus=all"
Urls == {UrlA, UrlB}

\* hashlib.md5(url.encode('utf-8')).hexdigest(), tabulated for Urls
url_hash(url) ==
    IF url = UrlA THEN "37b9eaf9e6d290164f1ed8f56c1cecdc"
    ELSE "1b3ced96c25ea3d47f55735f1ff6e710"

\* a file name taken from the number of files already cached
cache_filename_Listing(url, ext) ==
    [dir |-> "cache", name |-> <<Digits[Cardinality(DOMAIN files) + 1], ext>>]

\* os.path.join(PROJECT_ROOT, 'cache', f"{url_hash}{ext}")
cache_filename(url, ext) == [dir |-> "cache", name |-> <<url_hash(url), ext>>]

JsonPaths == {cache_filename(u, ".json") : u \in Urls}
RdbPaths == {cache_filename(u, ".rdb") : u \in Urls}
CachePaths == JsonPaths \cup RdbPaths

\* a check that never finds the file
Exists_Never(fs, path) == FALSE

\* os.path.exists(path)
Exists(fs, path) == path \in DOMAIN fs

\* open(path, 'w') ... write(text) ... close(): the file holds exactly text
WriteFile(fs, path, text) ==
    [q \in (DOMAIN fs) \cup {path} |-> IF q = path THEN text ELSE fs[q]]

\* f.read() in text mode raises UnicodeDecodeError on an undecodable byte
Undecodable(bytes) == \E i \in 1..Len(bytes) : bytes[i] = BadByte

(***************************************************************************)
(* The network: what requests.get(url) ends in.                            *)
(***************************************************************************)
RequestExceptions == {"ConnectionError", "Timeout", "SSLError"}
\* statuses for which raise_for_status raises HTTPError
ErrorStatuses == {404, 500}
\* final statuses that raise_for_status lets through: 200 OK, and 300
\* Multiple Choices, which requests does not follow as a redirect
OtherStatuses == {200, 300}

NoNet == [kind |-> "none", exc |-> "", status |-> 0, body |-> <<>>]
NetException(e) == [kind |-> "exception", exc |-> e, status |-> 0, body |-> <<>>]
NetResponse(st, b) == [kind |-> "response", exc |-> "", status |-> st, body |-> b]

\* response bodies of the stateful specifications
BodyJsonList == <<"[", "1", "]">>
BodyJsonNull == <<"n", "u", "l", "l">>
\* a comment line, the column names, the width row, one data row
BodyRdb == <<"#", NL, "a", NL, "s", NL, "1">>
BodyEmpty == <<>>
Bodies == {BodyJsonList, BodyRdb, BodyEmpty}

NetOutcomes ==
    {NetException(e) : e \in RequestExceptions}
    \cup {NetResponse(st, <<>>) : st \in ErrorStatuses}
    \cup {NetResponse(st, b) : st \in OtherStatuses, b \in Bodies}

\* a raise_for_status that only knows the server errors
RaisesForStatus_ServerOnly(status) == 500 <= status /\ status < 600

\* response.raise_for_status(): HTTPError for 4xx and 5xx
RaisesForStatus(status) == 400 <= status /\ status < 600

(***************************************************************************)
(* Results of a call.                                                      *)
(***************************************************************************)
Return(v) == [kind |-> "return", value |-> v, exc |-> ""]
Raise(e) == [kind |-> "raise", value |-> None, exc |-> e]

\* what a call leaves behind: the file system, the path it used, the number
\* of HTTP GETs it issued, whether it wrote the cache file, and its result
Outcome(fs, ds, path, gets, ret) ==
    [files |-> fs, dirs |-> ds, path |-> path, gets |-> gets, writes |-> 0,
     ret |-> ret]
Written(fs, ds, path, ret) ==
    [files |-> fs, dirs |-> ds, path |-> path, gets |-> 1, writes |-> 1,
     ret |-> ret]

(***************************************************************************)
(* api_handler.get_usgs_json_data                                          *)
(***************************************************************************)
\* the fetch without the save: the payload is returned, nothing is written
JsonApiCall_NoSave(fs, ds, path, net) ==
    IF net.kind = "exception" \/ RaisesForStatus(net.status)
    THEN Outcome(fs, ds, path, 1, Return(None))
    ELSE LET data == JsonLoads(net.body)
         IN IF ~data.ok THEN Outcome(fs, ds, path, 1, Return(None))
            ELSE Outcome(fs, ds, path, 1, Return(data.val))

\* "--- 2. If no cache, make the API call ---" and "--- 3. Save ---"
JsonApiCall(fs, ds, path, net) ==
    IF net.kind = "exception" \/ RaisesForStatus(net.status)
    THEN Outcome(fs, ds, path, 1, Return(None))
    ELSE LET data == JsonLoads(net.body)
         IN IF ~data.ok
            \* response.json() raises requests.exceptions.JSONDecodeError,
            \* a RequestException
            THEN Outcome(fs, ds, path, 1, Return(None))
            ELSE IF path.dir \notin ds
            \* open(cache_filename, 'w') in a directory that does not exist
            THEN Outcome(fs, ds, path, 1, Raise("FileNotFoundError"))
            ELSE Written(WriteFile(fs, path, JsonDumps(data.val, 0)), ds, path,
                         Return(data.val))

\* a fetcher that deletes a cache file it cannot decode before it refetches
get_usgs_json_data_Discard(fs, ds, url, net) ==
    LET path == cache_filename(url, ".json")
    IN IF Exists(fs, path)
       THEN IF Undecodable(fs[path])
            THEN Outcome(fs, ds, path, 0, Raise("UnicodeDecodeError"))
            ELSE LET data == JsonLoads(fs[path])
                 IN IF data.ok
                    THEN Outcome(fs, ds, path, 0, Return(data.val))
                    ELSE JsonApiCall([q \in (DOMAIN fs) \ {path} |-> fs[q]],
                                     ds, path, net)
       ELSE JsonApiCall(fs, ds, path, net)

\* a fetcher that refreshes the cache file on every call
get_usgs_json_data_Refresh(fs, ds, url, net) ==
    JsonApiCall(fs, ds, cache_filename(url, ".json"), net)

get_usgs_json_data(fs, ds, url, net) ==
    LET path == cache_filename(url, ".json")
    IN IF Exists(fs, path)
       THEN IF Undecodable(fs[path])
            \* neither json.JSONDecodeError nor IOError
            THEN Outcome(fs, ds, path, 0, Raise("UnicodeDecodeError"))
            ELSE LET data == JsonLoads(fs[path])
                 IN IF data.ok
                    THEN Outcome(fs, ds, path, 0, Return(data.val))
                    ELSE JsonApiCall(fs, ds, path, net)
       ELSE JsonApiCall(fs, ds, path, net)

(***************************************************************************)
(* api_handler.get_usgs_rdb_data                                           *)
(***************************************************************************)
\* pd.read_csv(cache_filename, ...): the file's bytes are decoded first
ReadCsvFile(bytes) ==
    IF Undecodable(bytes)
    THEN [ok |-> FALSE, exc |-> "UnicodeDecodeError", val |-> None]
    ELSE ReadCsv(bytes)

\* os.makedirs(cache_dir) when the directory does not exist
MakeDirs(ds, dir) == ds \cup {dir}

\* a save that leaves out the lines that start with the comment character
RECURSIVE WithoutComments(_, _)
WithoutComments(t, atStart) ==
    IF t = <<>> THEN <<>>
    ELSE IF atStart /\ Head(t) = "#"
    THEN LET rest == Tail(t)
             k == IF \E i \in 1..Len(rest) : rest[i] = NL
                  THEN CHOOSE i \in 1..Len(rest) :
                           rest[i] = NL /\ \A j \in 1..(i - 1) : rest[j] # NL
                  ELSE Len(rest)
         IN WithoutComments(SubSeq(rest, k + 1, Len(rest)), TRUE)
    ELSE <<Head(t)>> \o WithoutComments(Tail(t), Head(t) = NL)

RdbApiCall_SaveTable(fs, ds, path, net) ==
    IF net.kind = "exception" \/ RaisesForStatus(net.status)
    THEN Outcome(fs, ds, path, 1, Return(None))
    ELSE LET ds2 == MakeDirs(ds, path.dir)
             fs2 == WriteFile(fs, path, WithoutComments(net.body, TRUE))
             df == ReadCsv(net.body)
         IN IF ~df.ok
            THEN Written(fs2, ds2, path, Raise(df.exc))
            ELSE Written(fs2, ds2, path, Return(DropFirstRow(df.val)))

\* "--- 2. If no cache, make the API call ---" to "--- 5. Process ---"
RdbApiCall(fs, ds, path, net) ==
    IF net.kind = "exception" \/ RaisesForStatus(net.status)
    THEN Outcome(fs, ds, path, 1, Return(None))
    ELSE LET ds2 == MakeDirs(ds, path.dir)
             fs2 == WriteFile(fs, path, net.body)
             df == ReadCsv(net.body)
         IN IF ~df.ok
            \* EmptyDataError / ParserError is no RequestException
            THEN Written(fs2, ds2, path, Raise(df.exc))
            ELSE Written(fs2, ds2, path, Return(DropFirstRow(df.val)))

\* a cache hit that keeps the width row
get_usgs_rdb_data_KeepWidthRow(fs, ds, url, net) ==
    LET path == cache_filename(url, ".rdb")
    IN IF Exists(fs, path) /\ ReadCsvFile(fs[path]).ok
       THEN Outcome(fs, ds, path, 0, Return(ReadCsvFile(fs[path]).val))
       ELSE RdbApiCall(fs, ds, path, net)

\* a fetcher that never looks at the cache
get_usgs_rdb_data_Refetch(fs, ds, url, net) ==
    RdbApiCall(fs, ds, cache_filename(url, ".rdb"), net)

get_usgs_rdb_data(fs, ds, url, net) ==
    LET path == cache_filename(url, ".rdb")
    IN IF Exists(fs, path)
       THEN LET df == ReadCsvFile(fs[path])
            IN IF df.ok
               THEN Outcome(fs, ds, path, 0, Return(DropFirstRow(df.val)))
               \* except Exception: refetch
               ELSE RdbApiCall(fs, ds, path, net)
       ELSE RdbApiCall(fs, ds, path, net)

(***************************************************************************)
(* State: files maps each existing file to its content, dirs is the set of *)
(* existing directories, last describes the call that has just returned.   *)
(***************************************************************************)
\* number of cache files that exist before the first call with content the
\* fetchers did not necessarily write (left over, truncated or corrupted)
MaxForeign == 1

ForeignTexts == Bodies \cup {<<BadByte>>, BodyJsonNull}

NoPath == [dir |-> "", name |-> <<"", "">>]
NoCall ==
    [fn |-> "none", url |-> "", path |-> NoPath, pre |-> <<>>, preDirs |-> {},
     net |-> NoNet, gets |-> 0, writes |-> 0, ret |-> Return(None)]

Called(fn, url, net, o) ==
    [fn |-> fn, url |-> url, path |-> o.path, pre |-> files, preDirs |-> dirs,
     net |-> IF o.gets = 0 THEN NoNet ELSE net, gets |-> o.gets,
     writes |-> o.writes, ret |-> o.ret]

InitFiles(paths) ==
    {f \in UNION {[d -> ForeignTexts] : d \in SUBSET paths} :
        Cardinality(DOMAIN f) <= MaxForeign}

Init ==
    /\ dirs \in {{}, {"cache"}}
    /\ files \in (IF dirs = {} THEN {<<>>} ELSE InitFiles(CachePaths))
    /\ last = NoCall
    /\ keys = <<>>
    /\ origin = <<>>
    /\ procs = <<>>

\* a call that ends with outcome o
Call(fn, url, net, o) ==
    /\ files' = o.files
    /\ dirs' = o.dirs
    /\ last' = Called(fn, url, net, o)

JsonFetch(url, net) ==
    /\ Call("get_usgs_json_data", url, net,
            get_usgs_json_data(files, dirs, url, net))
    /\ UNCHANGED <<keys, origin, procs>>

RdbFetch(url, net) ==
    /\ Call("get_usgs_rdb_data", url, net,
            get_usgs_rdb_data(files, dirs, url, net))
    /\ UNCHANGED <<keys, origin, procs>>

Next ==
    \E url \in Urls, net \in NetOutcomes :
        \/ JsonFetch(url, net)
        \/ RdbFetch(url, net)

Spec == Init /\ [][Next]_vars

(***************************************************************************)
(* The script-level fetchers: main.get_usgs_data and                       *)
(* site_info.get_usgs_rdb_data (main.get_usgs_rdb_data is the same text).  *)
(* The caller supplies the cache file; the scripts pass a fixed name,      *)
(* whatever the URL.  The working directory is the project root.          *)
(***************************************************************************)
\* main.DAILY_VALUE_URL, as set and as commented out
DailyUrlA == "https://waterservices.usgs.gov/nwis/dv/?format=json&sites=06611200&startDT=1975-01-01&endDT=2000-12-31&siteStatus=all"
DailyUrlB == "https://waterservices.usgs.gov/nwis/dv/?format=json&sites=06699005&startDT=1975-01-01&endDT=2000-12-31&siteStatus=all"
DailyUrls == {DailyUrlA, DailyUrlB}
\* site_info.API_URL, and the same query for another state
SiteUrlA == "https://waterservices.usgs.gov/nwis/site/?format=rdb&stateCd=08&siteStatus=all"
SiteUrlB == "https://waterservices.usgs.gov/nwis/site/?format=rdb&stateCd=56&siteStatus=all"
SiteUrls == {SiteUrlA, SiteUrlB}

\* main.DAILY_CACHE_FILENAME = 'data/usgs_data.json'
DAILY_CACHE_FILENAME == [dir |-> "data", name |-> <<"usgs_data", ".json">>]
\* site_info.CACHE_FILENAME = os.path.join(PROJECT_ROOT, 'data', 'usgs_sitedata.rdb')
CACHE_FILENAME == [dir |-> "data", name |-> <<"usgs_sitedata", ".rdb">>]

\* main.get_usgs_data(url, cache_file)
get_usgs_data(fs, ds, url, cache_file, net) ==
    IF Exists(fs, cache_file)
    THEN IF Undecodable(fs[cache_file])
         THEN Outcome(fs, ds, cache_file, 0, Raise("UnicodeDecodeError"))
         ELSE LET data == JsonLoads(fs[cache_file])
              IN IF data.ok
                 THEN Outcome(fs, ds, cache_file, 0, Return(data.val))
                 ELSE JsonApiCall(fs, ds, cache_file, net)
    ELSE JsonApiCall(fs, ds, cache_file, net)

\* site_info.get_usgs_rdb_data(url, cache_file)
site_get_usgs_rdb_data(fs, ds, url, cache_file, net) ==
    IF Exists(fs, cache_file)
    THEN LET df == ReadCsvFile(fs[cache_file])
         IN IF df.ok
            THEN Outcome(fs, ds, cache_file, 0, Return(DropFirstRow(df.val)))
            ELSE RdbApiCall(fs, ds, cache_file, net)
    ELSE RdbApiCall(fs, ds, cache_file, net)

\* origin records, for each cache file, the URL of the fetch that wrote it
WrittenBy(o, url) ==
    IF o.writes = 1
    THEN [q \in (DOMAIN origin) \cup {o.path} |->
              IF q = o.path THEN url ELSE origin[q]]
    ELSE origin

\* main.extract_daily_data: get_usgs_data(DAILY_VALUE_URL, DAILY_CACHE_FILENAME)
DailyFetch(url, net) ==
    LET o == get_usgs_data(files, dirs, url, DAILY_CACHE_FILENAME, net)
    IN /\ Call("get_usgs_data", url, net, o)
       /\ origin' = WrittenBy(o, url)
       /\ UNCHANGED <<keys, procs>>

\* site_info.__main__: get_usgs_rdb_data(API_URL, CACHE_FILENAME)
SiteFetch(url, net) ==
    LET o == site_get_usgs_rdb_data(files, dirs, url, CACHE_FILENAME, net)
    IN /\ Call("site_info.get_usgs_rdb_data", url, net, o)
       /\ origin' = WrittenBy(o, url)
       /\ UNCHANGED <<keys, procs>>

InitScripts ==
    /\ dirs \in {{}, {"data"}}
    /\ files = <<>>
    /\ last = NoCall
    /\ keys = <<>>
    /\ origin = <<>>
    /\ procs = <<>>

NextScripts ==
    \E net \in NetOutcomes :
        \/ \E url \in DailyUrls : DailyFetch(url, net)
        \/ \E url \in SiteUrls : SiteFetch(url, net)

SpecScripts == InitScripts /\ [][NextScripts]_vars

(***************************************************************************)
(* The api_handler fetchers with a record of the cache path each           *)
(* (function, URL) pair used first.                                        *)
(***************************************************************************)
Remember(fn, url, path) ==
    IF <<fn, url>> \in DOMAIN keys THEN keys
    ELSE [k \in (DOMAIN keys) \cup {<<fn, url>>} |->
              IF k = <<fn, url>> THEN path ELSE keys[k]]

JsonFetchK(url, net) ==
    LET o == get_usgs_json_data(files, dirs, url, net)
    IN /\ Call("get_usgs_json_data", url, net, o)
       /\ keys' = Remember("get_usgs_json_data", url, o.path)
       /\ UNCHANGED <<origin, procs>>

RdbFetchK(url, net) ==
    LET o == get_usgs_rdb_data(files, dirs, url, net)
    IN /\ Call("get_usgs_rdb_data", url, net, o)
       /\ keys' = Remember("get_usgs_rdb_data", url, o.path)
       /\ UNCHANGED <<origin, procs>>

KeyNetOutcomes ==
    {NetException("ConnectionError"), NetResponse(200, BodyJsonList),
     NetResponse(200, BodyRdb)}

InitKeys ==
    /\ dirs \in {{}, {"cache"}}
    /\ files = <<>>
    /\ last = NoCall
    /\ keys = <<>>
    /\ origin = <<>>
    /\ procs = <<>>

NextKeys ==
    \E url \in Urls, net \in KeyNetOutcomes :
        \/ JsonFetchK(url, net)
        \/ RdbFetchK(url, net)

SpecKeys == InitKeys /\ [][NextKeys]_vars

(***************************************************************************)
(* The JSON fetcher on one URL, with every response body of at most MaxLen *)
(* characters over JsonChars and some longer ones.                         *)
(***************************************************************************)
JsonChars == {"[", "]", "{", "}", ",", "1", SP}

ExtraJsonTexts ==
    {<<"n", "u", "l", "l">>,
     <<"\"", "a", "\"">>,
     <<"[", "n", "u", "l", "l", ",", "1", "0", "]">>,
     <<"{", "\"", "a", "\"", ":", "1", "}">>,
     <<"{", "\"", "a", "\"", ":", "1", ",", "\"", "a", "\"", ":", "2", "}">>,
     <<"{", "\"", "a", "\"", ":", "[", "1", ",", "{", "}", "]", ",", SP,
       "\"", "b", "\"", ":", "{", "\"", "a", "\"", ":", "\"", "\"", "}", "}">>,
     <<"{", "a", ":", "1", "}">>,
     <<"[", "1", ",", "]">>}

JsonTexts ==
    UNION {[1..n -> JsonChars] : n \in 0..MaxLen} \cup ExtraJsonTexts

InitJson ==
    /\ dirs = {"cache"}
    /\ files = <<>>
    /\ last = NoCall
    /\ keys = <<>>
    /\ origin = <<>>
    /\ procs = <<>>

\* a first call, and a second call right after a call that wrote the cache
NextJson ==
    /\ last = NoCall \/ last.writes = 1
    /\ \E body \in JsonTexts : JsonFetch(UrlA, NetResponse(200, body))

SpecJson == InitJson /\ [][NextJson]_vars

(***************************************************************************)
(* The RDB fetcher on one URL, with every response body of at most         *)
(* MaxRdbLen characters over RdbChars and some longer ones, followed by    *)
(* further calls for the same URL.                                         *)
(***************************************************************************)
MaxRdbLen == 5

RdbChars == {"#", NL, TAB, "a", "\""}

ExtraRdbTexts ==
    {\* column names A B, widths 8s 8s, two data rows
     <<"A", TAB, "B", NL, "8", "s", TAB, "8", "s", NL,
       "1", TAB, "2", NL, "3", TAB, "4", NL>>,
     \* comment lines around the table, a short row
     <<"#", "c", NL, "a", TAB, "b", NL, "#", NL, "s", TAB, "s", NL, "1", NL>>,
     \* a data row with more fields than the table
     <<"a", NL, "s", NL, "1", TAB, "2">>,
     \* a width row with more fields than the column names
     <<"a", NL, "s", TAB, "x", NL, "1", TAB, "2">>,
     \* a '#' inside a field
     <<"a", TAB, "b", NL, "s", TAB, "s", NL, "n", "#", "1", TAB, "2">>,
     \* a field that starts with a quote
     <<"a", NL, "s", NL, "\"", "1", NL, "2", "\"", NL, "3">>}

RdbTexts ==
    UNION {[1..n -> RdbChars] : n \in 0..MaxRdbLen} \cup ExtraRdbTexts

InitRdb ==
    /\ dirs \in {{}, {"cache"}}
    /\ files = <<>>
    /\ last = NoCall
    /\ keys = <<>>
    /\ origin = <<>>
    /\ procs = <<>>

\* a first call, and further calls after a call that wrote the cache
NextRdb ==
    \/ /\ last = NoCall
       /\ \E body \in RdbTexts : RdbFetch(UrlA, NetResponse(200, body))
    \/ /\ last.writes = 1
       /\ \E net \in KeyNetOutcomes : RdbFetch(UrlA, net)

SpecRdb == InitRdb /\ [][NextRdb]_vars

(***************************************************************************)
(* Sequences of calls of the api_handler fetchers that start from an empty *)
(* cache, with two records of what has happened: origin maps a cache path  *)
(* to the content it got from the first call that saved it and returned a  *)
(* payload, keys maps a (function, URL) pair to the first payload a call   *)
(* for it returned.                                                        *)
(***************************************************************************)
ReturnedPayload(o) == o.ret.kind = "return" /\ o.ret.value.t # "None"

Created(o) ==
    IF o.writes = 1 /\ ReturnedPayload(o) /\ o.path \notin DOMAIN origin
    THEN [q \in (DOMAIN origin) \cup {o.path} |->
              IF q = o.path THEN o.files[o.path] ELSE origin[q]]
    ELSE origin

FirstPayload(fn, url, o) ==
    IF ReturnedPayload(o) /\ <<fn, url>> \notin DOMAIN keys
    THEN [k \in (DOMAIN keys) \cup {<<fn, url>>} |->
              IF k = <<fn, url>> THEN o.ret.value ELSE keys[k]]
    ELSE keys

JsonFetchH(url, net) ==
    LET o == get_usgs_json_data(files, dirs, url, net)
    IN /\ Call("get_usgs_json_data", url, net, o)
       /\ origin' = Created(o)
       /\ keys' = FirstPayload("get_usgs_json_data", url, o)
       /\ UNCHANGED procs

RdbFetchH(url, net) ==
    LET o == get_usgs_rdb_data(files, dirs, url, net)
    IN /\ Call("get_usgs_rdb_data", url, net, o)
       /\ origin' = Created(o)
       /\ keys' = FirstPayload("get_usgs_rdb_data", url, o)
       /\ UNCHANGED procs

HistoryBodies == {BodyJsonList, <<"1">>, BodyRdb, BodyEmpty}

HistoryNetOutcomes ==
    {NetException("ConnectionError"), NetResponse(404, <<>>)}
    \cup {NetResponse(200, b) : b \in HistoryBodies}

InitHistory ==
    /\ dirs \in {{}, {"cache"}}
    /\ files = <<>>
    /\ last = NoCall
    /\ keys = <<>>
    /\ origin = <<>>
    /\ procs = <<>>

NextHistory ==
    \E url \in Urls, net \in HistoryNetOutcomes :
        \/ JsonFetchH(url, net)
        \/ RdbFetchH(url, net)

SpecHistory == InitHistory /\ [][NextHistory]_vars

(***************************************************************************)
(* Two calls of the same api_handler fetcher for the same URL that run     *)
(* concurrently (two runs of a script, or two threads).  Each call is a    *)
(* sequence of steps: the existence check, the read of the cache file, the *)
(* GET, the directory check and os.makedirs (RDB fetcher only), the        *)
(* open(path, 'w') that truncates the file, the writes that flush the      *)
(* buffered text at the file offset of the writer, and the return.         *)
(***************************************************************************)
Procs == {1, 2}

\* characters that reach the file in one piece: the buffered writer hands
\* the JSON encoder's output to write() in pieces of io.DEFAULT_BUFFER_SIZE,
\* and a write() of a longer text extends the file page by page under the
\* eyes of a concurrent reader (both scaled down)
BufferSize == 8

\* the byte a file shows where nothing was written below the end of file
Hole == "<00>"

\* column names, the width row and four data rows
BodyRdbLong == <<"a", NL, "s", NL, "1", NL, "2", NL, "3", NL, "4">>

ConcBodies == {BodyJsonList, <<"1">>, BodyRdbLong}
ConcNetOutcomes ==
    {NetException("ConnectionError")}
    \cup {NetResponse(200, b) : b \in ConcBodies}

Ext(fn) == IF fn = "get_usgs_json_data" THEN ".json" ELSE ".rdb"

Started(fn, url) ==
    [pc |-> "start", fn |-> fn, url |-> url, path |-> cache_filename(url, Ext(fn)),
     net |-> NoNet, gets |-> 0, data |-> None, buf |-> <<>>, pos |-> 0,
     ret |-> Return(None)]

Finished(pr, ret) == [pr EXCEPT !.pc = "done", !.ret = ret, !.buf = <<>>]

\* write(fd, chunk) at offset pos of a file that holds content
WriteAt(content, pos, chunk) ==
    LET end == pos + Len(chunk)
        len == MaxOf(Len(content), end)
    IN [i \in 1..len |->
           IF i > pos /\ i <= end THEN chunk[i - pos]
           ELSE IF i <= Len(content) THEN content[i]
           ELSE Hole]

\* how much of the pending text reaches the file in the next piece
ChunkLen(pr) ==
    IF Len(pr.buf) > BufferSize THEN BufferSize ELSE Len(pr.buf)

\* what the call returns once its text is on disk
AfterSave(pr) ==
    IF pr.fn = "get_usgs_json_data" THEN Return(pr.data)
    ELSE LET df == ReadCsv(pr.net.body)
         IN IF df.ok THEN Return(DropFirstRow(df.val)) ELSE Raise(df.exc)

\* if os.path.exists(cache_filename):
CheckExists(p) ==
    /\ procs[p].pc = "start"
    /\ procs' = [procs EXCEPT ![p].pc =
                     IF Exists(files, procs[p].path) THEN "read" ELSE "get"]
    /\ UNCHANGED <<files, dirs, last, keys, origin>>

\* json.load(f) / pd.read_csv(cache_filename, ...): the file as it is now
ReadCache(p) ==
    LET pr == procs[p]
        bytes == files[pr.path]
    IN /\ pr.pc = "read"
       /\ procs' = [procs EXCEPT ![p] =
              IF pr.fn = "get_usgs_json_data"
              THEN IF Undecodable(bytes) THEN Finished(pr, Raise("UnicodeDecodeError"))
                   ELSE IF JsonLoads(bytes).ok
                        THEN Finished(pr, Return(JsonLoads(bytes).val))
                        ELSE [pr EXCEPT !.pc = "get"]
              ELSE IF ReadCsvFile(bytes).ok
                   THEN Finished(pr, Return(DropFirstRow(ReadCsvFile(bytes).val)))
                   ELSE [pr EXCEPT !.pc = "get"]]
       /\ UNCHANGED <<files, dirs, last, keys, origin>>

\* a GET that is tried again after a failure
Get_Retry(p, net) ==
    LET pr == [procs[p] EXCEPT !.net = net, !.gets = 1]
    IN /\ procs[p].pc = "get"
       /\ procs' = [procs EXCEPT ![p] =
              IF net.kind = "exception" \/ RaisesForStatus(net.status)
              THEN pr
              ELSE IF pr.fn = "get_usgs_json_data"
                   THEN IF JsonLoads(net.body).ok
                        THEN [pr EXCEPT !.pc = "open",
                                        !.data = JsonLoads(net.body).val,
                                        !.buf = JsonDumps(JsonLoads(net.body).val, 0)]
                        ELSE Finished(pr, Return(None))
                   ELSE [pr EXCEPT !.pc = "checkdir", !.buf = net.body]]
       /\ UNCHANGED <<files, dirs, last, keys, origin>>

\* requests.get(url); raise_for_status(); response.json() / response.text
Get(p, net) ==
    LET pr == [procs[p] EXCEPT !.net = net, !.gets = 1]
    IN /\ procs[p].pc = "get"
       /\ procs' = [procs EXCEPT ![p] =
              IF net.kind = "exception" \/ RaisesForStatus(net.status)
              THEN Finished(pr, Return(None))
              ELSE IF pr.fn = "get_usgs_json_data"
                   THEN IF JsonLoads(net.body).ok
                        THEN [pr EXCEPT !.pc = "open",
                                        !.data = JsonLoads(net.body).val,
                                        !.buf = JsonDumps(JsonLoads(net.body).val, 0)]
                        ELSE Finished(pr, Return(None))
                   ELSE [pr EXCEPT !.pc = "checkdir", !.buf = net.body]]
       /\ UNCHANGED <<files, dirs, last, keys, origin>>

\* if cache_dir and not os.path.exists(cache_dir):
CheckDir(p) ==
    /\ procs[p].pc = "checkdir"
    /\ procs' = [procs EXCEPT ![p].pc =
                     IF procs[p].path.dir \in dirs THEN "open" ELSE "makedirs"]
    /\ UNCHANGED <<files, dirs, last, keys, origin>>

\* os.makedirs(cache_dir): FileExistsError when the directory exists by now
MakeDirsStep(p) ==
    LET pr == procs[p]
    IN /\ pr.pc = "makedirs"
       /\ IF pr.path.dir \in dirs
          THEN /\ procs' = [procs EXCEPT ![p] = Finished(pr, Raise("FileExistsError"))]
               /\ UNCHANGED dirs
          ELSE /\ procs' = [procs EXCEPT ![p].pc = "open"]
               /\ dirs' = MakeDirs(dirs, pr.path.dir)
       /\ UNCHANGED <<files, last, keys, origin>>

\* with open(cache_filename, 'w') as f: the file is created or truncated
Open(p) ==
    LET pr == procs[p]
    IN /\ pr.pc = "open"
       /\ IF pr.path.dir \notin dirs
          THEN /\ procs' = [procs EXCEPT ![p] = Finished(pr, Raise("FileNotFoundError"))]
               /\ UNCHANGED files
          ELSE /\ procs' = [procs EXCEPT ![p].pc = "write", ![p].pos = 0]
               /\ files' = WriteFile(files, pr.path, <<>>)
       /\ UNCHANGED <<dirs, last, keys, origin>>

\* one write() of the pending text; after the last one the file is closed
\* and the call returns
Write(p) ==
    LET pr == procs[p]
        n == ChunkLen(pr)
        rest == SubSeq(pr.buf, n + 1, Len(pr.buf))
    IN /\ pr.pc = "write"
       /\ files' = WriteFile(files, pr.path,
                             WriteAt(files[pr.path], pr.pos, SubSeq(pr.buf, 1, n)))
       /\ procs' = [procs EXCEPT ![p] =
              IF rest = <<>> THEN Finished(pr, AfterSave(pr))
              ELSE [pr EXCEPT !.buf = rest, !.pos = pr.pos + n]]
       /\ UNCHANGED <<dirs, last, keys, origin>>

\* last.preDirs keeps the directories that existed when the calls started
InitConc ==
    /\ dirs \in {{}, {"cache"}}
    /\ files = <<>>
    /\ last = [NoCall EXCEPT !.preDirs = dirs]
    /\ keys = <<>>
    /\ origin = <<>>
    /\ \E fn \in {"get_usgs_json_data", "get_usgs_rdb_data"} :
           procs = [p \in Procs |-> Started(fn, UrlA)]

NextConc ==
    \E p \in Procs :
        \/ CheckExists(p)
        \/ ReadCache(p)
        \/ \E net \in ConcNetOutcomes : Get(p, net)
        \/ CheckDir(p)
        \/ MakeDirsStep(p)
        \/ Open(p)
        \/ Write(p)

SpecConc == InitConc /\ [][NextConc]_vars

(***************************************************************************)
(* Vocabulary of the properties.                                           *)
(***************************************************************************)
JsonFn == "get_usgs_json_data"
RdbFn == "get_usgs_rdb_data"

\* "decodes successfully in the requested format": the payload a text
\* stands for, for the fetcher fn
Decoded(fn, text) ==
    IF fn = JsonFn
    THEN IF Undecodable(text) THEN [ok |-> FALSE, val |-> None]
         ELSE JsonLoads(text)
    ELSE LET df == ReadCsvFile(text)
         IN IF df.ok THEN [ok |-> TRUE, val |-> DropFirstRow(df.val)]
            ELSE [ok |-> FALSE, val |-> None]

ACall == last.fn # "none"
CacheFileBefore == Exists(last.pre, last.path)
CacheHit == ACall /\ CacheFileBefore /\ Decoded(last.fn, last.pre[last.path]).ok
CorruptCache == ACall /\ CacheFileBefore /\ ~Decoded(last.fn, last.pre[last.path]).ok
GotResponse == ACall /\ last.gets = 1 /\ last.net.kind = "response"
Got2xx == GotResponse /\ last.net.status \in 200..299
GotDecodable2xx == Got2xx /\ Decoded(last.fn, last.net.body).ok
Returned(v) == last.ret = Return(v)

(***************************************************************************)
(* C1: cache hit.  When a file exists at the cache path and decodes, the   *)
(* call returns the payload decoded from that file, issues no HTTP GET and *)
(* leaves every file and directory as it was.                              *)
(***************************************************************************)
C1_CacheHit ==
    CacheHit =>
        /\ Returned(Decoded(last.fn, last.pre[last.path]).val)
        /\ last.gets = 0
        /\ files = last.pre
        /\ dirs = last.preDirs

\* a hit of the RDB fetcher that returns a non-empty table while the JSON
\* cache file of the same URL exists as well
C1_Witness ==
    /\ CacheHit
    /\ last.fn = RdbFn
    /\ last.ret.value.rows # <<>>
    /\ Exists(files, cache_filename(last.url, ".json"))

(***************************************************************************)
(* C2: cache miss.  Starting from an empty cache directory, a fetch whose  *)
(* GET returns 2xx creates exactly one file, at the derived path, whose    *)
(* decoded content equals the decoded response body, and returns that      *)
(* payload.                                                                *)
(***************************************************************************)
EmptyCacheBefore == last.preDirs = {"cache"} /\ DOMAIN last.pre = {}

MissPostcondition ==
    /\ DOMAIN files = {cache_filename(last.url, IF last.fn = JsonFn THEN ".json" ELSE ".rdb")}
    /\ last.path \in DOMAIN files
    /\ Decoded(last.fn, files[last.path]).ok
    /\ Decoded(last.fn, files[last.path]).val = Decoded(last.fn, last.net.body).val
    /\ Returned(Decoded(last.fn, last.net.body).val)

\* C2 as stated: for every 2xx response
C2_Original == (EmptyCacheBefore /\ Got2xx) => MissPostcondition

\* C2 amended: for every 2xx response whose body decodes in the requested
\* format
C2_CacheMiss == (EmptyCacheBefore /\ GotDecodable2xx) => MissPostcondition

C2_Witness ==
    /\ EmptyCacheBefore
    /\ GotDecodable2xx
    /\ last.fn = JsonFn
    /\ last.ret.value = PyList(<<PyInt(1)>>)
    /\ files[last.path] # last.net.body

(***************************************************************************)
(* C3: network failure yields absence.  Whenever the GET ends in a non-2xx *)
(* status or in a network-layer exception, the call returns None and no    *)
(* exception propagates.                                                   *)
(***************************************************************************)
GotException == ACall /\ last.gets = 1 /\ last.net.kind = "exception"

\* C3 as stated: every status outside 2xx
C3_Original ==
    (GotException \/ (GotResponse /\ last.net.status \notin 200..299))
        => Returned(None)

\* C3 amended: every 4xx or 5xx status
C3_NetworkFailure ==
    (GotException \/ (GotResponse /\ last.net.status \in 400..599))
        => Returned(None)

\* a corrupt cache file, then a failing GET
C3_Witness ==
    /\ GotResponse
    /\ last.net.status = 500
    /\ CorruptCache
    /\ Returned(None)

(***************************************************************************)
(* C4: every call ends by returning a payload or None; no exception        *)
(* escapes the fetch function.                                             *)
(***************************************************************************)
C4_NoExceptionEscapes == ACall => last.ret.kind = "return"

(***************************************************************************)
(* C5: on a successful (2xx) fetch, for both fetchers, the missing parent  *)
(* directories of the cache path are created before the write, so a        *)
(* successful fetch that starts with no cache directory ends with the      *)
(* cache file present.                                                     *)
(***************************************************************************)
C5_PersistCreatesDirs ==
    (GotDecodable2xx /\ last.path.dir \notin last.preDirs)
        => /\ last.path.dir \in dirs
           /\ Exists(files, last.path)

(***************************************************************************)
(* C6: corrupt-cache recovery.  When the cache file exists but cannot be   *)
(* read or decoded, the call does not fail and does not delete the file;   *)
(* it proceeds to the network fetch, and if the GET succeeds it overwrites *)
(* the file with valid content and returns the fetched payload.            *)
(***************************************************************************)
C6_CorruptCacheRecovery ==
    CorruptCache =>
        /\ last.ret.kind = "return"
        /\ Exists(files, last.path)
        /\ last.gets = 1
        /\ GotDecodable2xx =>
               /\ Decoded(last.fn, files[last.path]).ok
               /\ Returned(Decoded(last.fn, last.net.body).val)

(***************************************************************************)
(* C7: distinct URLs use distinct cache entries, so a fetch of u2 made     *)
(* after a successful fetch of u1 never returns the payload that was       *)
(* cached for u1: a call served from the cache reads a file written by a   *)
(* fetch of the same URL.                                                  *)
(***************************************************************************)
ServedFromCache == ACall /\ last.gets = 0 /\ last.ret.kind = "return"

C7_DistinctEntries ==
    (ServedFromCache /\ last.path \in DOMAIN origin)
        => origin[last.path] = last.url

(***************************************************************************)
(* C8: key determinism.  Any two calls of an api_handler fetcher with the  *)
(* identical URL use the identical cache path, whatever happened in        *)
(* between: the path of the call that has just returned is the path the    *)
(* first call with that URL used.                                          *)
(***************************************************************************)
C8_KeyDeterminism ==
    ACall =>
        /\ <<last.fn, last.url>> \in DOMAIN keys
        /\ last.path = keys[<<last.fn, last.url>>]

\* the JSON fetcher is called for UrlA again after calls for both URLs and
\* both formats, with the cache directory created in between
C8_Witness ==
    /\ DOMAIN keys = {JsonFn, RdbFn} \X Urls
    /\ last.fn = JsonFn
    /\ last.url = UrlA
    /\ last.preDirs = {"cache"}
    /\ Exists(last.pre, cache_filename(UrlB, ".rdb"))
    /\ last.gets = 0

(***************************************************************************)
(* C9: concurrent fetches.  When two calls with the same cache key run     *)
(* concurrently against an initially empty cache and both GETs succeed,    *)
(* both calls return a payload, and once both have finished the cache file *)
(* holds exactly one complete response, never a partial or interleaved mix *)
(* of the two writes.                                                      *)
(***************************************************************************)
GetSucceeded(p) ==
    /\ procs[p].gets = 1
    /\ procs[p].net.kind = "response"
    /\ procs[p].net.status \in 200..299
    /\ Decoded(procs[p].fn, procs[p].net.body).ok

\* the text a call's save puts on disk when nothing interferes
CompleteText(p) ==
    IF procs[p].fn = JsonFn
    THEN JsonDumps(JsonLoads(procs[p].net.body).val, 0)
    ELSE procs[p].net.body

C9_ConcurrentFetches ==
    (/\ last.preDirs = {"cache"}
     /\ \A p \in Procs : procs[p].pc = "done" /\ GetSucceeded(p))
        => /\ \A p \in Procs :
                  procs[p].ret = Return(Decoded(procs[p].fn, procs[p].net.body).val)
           /\ \E p \in Procs :
                  /\ Exists(files, procs[p].path)
                  /\ files[procs[p].path] = CompleteText(p)

(***************************************************************************)
(* C10: JSON round trip.  For every payload p returned by a cache-miss     *)
(* fetch, an immediately following fetch of the same URL is a cache hit    *)
(* that returns a payload equal to p.                                      *)
(***************************************************************************)
MissReturnedPayload ==
    /\ GotDecodable2xx
    /\ last.fn = JsonFn
    /\ last.writes = 1
    /\ last.ret.kind = "return"

C10_JsonRoundTrip ==
    [][(MissReturnedPayload /\ last'.fn = last.fn /\ last'.url = last.url)
           => (last'.gets = 0 /\ last'.ret = last.ret)]_vars

\* a hit that returns a dict read back from a pretty-printed file
C10_Witness ==
    /\ CacheHit
    /\ last.fn = JsonFn
    /\ last.ret.value.t = "dict"
    /\ Len(last.ret.value.pairs) = 2
    /\ Len(last.pre[last.path]) > 30
(***************************************************************************)
(* C11: hit/miss equivalence for delimited text.  After a cache-miss call  *)
(* of the RDB fetcher that wrote the response text and returned a table,   *)
(* the next call for the same URL issues no HTTP GET and returns an equal  *)
(* table.                                                                  *)
(***************************************************************************)
RdbMissReturnedTable ==
    /\ last.fn = RdbFn
    /\ last.writes = 1
    /\ last.ret.kind = "return"

C11_HitMissEquivalence ==
    [][(RdbMissReturnedTable /\ last'.fn = last.fn /\ last'.url = last.url)
          => (last'.gets = 0 /\ last'.ret = last.ret)]_vars

C11_Witness ==
    /\ last.fn = RdbFn
    /\ last.gets = 0
    /\ last.ret.kind = "return"
    /\ Len(last.ret.value.rows) = 2
    /\ Len(last.ret.value.columns) = 2
    /\ Exists(files, last.path)

(***************************************************************************)
(* C12: double-header stripping.  The lines of a text are its pieces       *)
(* between newlines; lines that are empty or begin with '#' are skipped,   *)
(* the first remaining line gives the column names, the next one is        *)
(* dropped, and every following line is a row of the result, in order,     *)
(* made of its tab-separated fields: a text with column names, a width row *)
(* and n more lines decodes to exactly those n rows.                       *)
(***************************************************************************)
RECURSIVE SplitOn(_, _)
SplitOn(t, sep) ==
    IF \E i \in 1..Len(t) : t[i] = sep
    THEN LET i == CHOOSE i \in 1..Len(t) :
                      t[i] = sep /\ \A k \in 1..(i - 1) : t[k] # sep
         IN <<SubSeq(t, 1, i - 1)>> \o SplitOn(SubSeq(t, i + 1, Len(t)), sep)
    ELSE <<t>>

TableLines(text) ==
    SelectSeq(SplitOn(text, NL), LAMBDA line : line # <<>> /\ line[1] # "#")

FollowingRows(text) ==
    LET ls == TableLines(text)
        h == Len(SplitOn(ls[1], TAB))
    IN [k \in 1..(Len(ls) - 2) |->
           LET fields == SplitOn(ls[k + 2], TAB)
           IN [c \in 1..h |-> IF c <= Len(fields) THEN Cell(fields[c]) ELSE NaN]]

RdbDecodedBody ==
    /\ last.fn = RdbFn
    /\ GotResponse
    /\ ~RaisesForStatus(last.net.status)
    /\ Len(TableLines(last.net.body)) >= 2

C12_DoubleHeader ==
    RdbDecodedBody =>
        /\ last.ret.kind = "return"
        /\ Len(last.ret.value.columns) = Len(SplitOn(TableLines(last.net.body)[1], TAB))
        /\ last.ret.value.rows = FollowingRows(last.net.body)

(***************************************************************************)
(* C13: verbatim persistence of delimited text.  After a call of the RDB   *)
(* fetcher that saved a response, the cache file holds exactly the text of *)
(* that response, comment lines and both header rows included.             *)
(***************************************************************************)
C13_VerbatimPersistence ==
    (last.fn = RdbFn /\ last.writes = 1) =>
        /\ Exists(files, last.path)
        /\ files[last.path] = last.net.body

C13_Witness ==
    /\ last.fn = RdbFn
    /\ last.writes = 1
    /\ last.ret.kind = "return"
    /\ Len(last.ret.value.rows) = 1
    /\ files[last.path][1] = "#"
    /\ Len(TableLines(files[last.path])) = 3
    /\ Len(SplitOn(files[last.path], NL)) > 4

C18_NoRedundantCalls ==
    [][\A k \in DOMAIN keys :
          (last'.fn = k[1] /\ last'.url = k[2])
              => (last'.gets = 0 /\ last'.ret = Return(keys[k]))]_vars

C18_Witness ==
    /\ Cardinality(DOMAIN keys) = 4
    /\ last.gets = 0
    /\ last.fn = JsonFn
    /\ last.url = UrlB
    /\ last.ret = Return(PyInt(1))
    /\ keys[<<JsonFn, UrlA>>] = PyList(<<PyInt(1)>>)

(***************************************************************************)
(* C19: no partial success.  A call writes a cache file only if it returns *)
(* a decoded payload, and after any sequence of calls that starts from an  *)
(* empty cache every cache file decodes in the format of its extension.    *)
(***************************************************************************)
FormatOf(path) == IF path.name[2] = ".json" THEN JsonFn ELSE RdbFn

C19_NoPartialSuccess ==
    /\ (ACall /\ last.writes = 1) =>
           (last.ret.kind = "return" /\ last.ret.value.t # "None")
    /\ \A p \in DOMAIN files : Decoded(FormatOf(p), files[p]).ok

(***************************************************************************)
(* C15: a failed fetch leaves the cache untouched.  A call whose HTTP GET  *)
(* ends in an exception of the network layer or in a 4xx or 5xx status     *)
(* leaves every file and directory as it was; a cache file that did not    *)
(* decode is still there with the same content.  The statement for every   *)
(* status outside 2xx is C15_Original.                                     *)
(***************************************************************************)
CacheUntouched == files = last.pre /\ dirs = last.preDirs

C15_Original ==
    (GotException \/ (GotResponse /\ last.net.status \notin 200..299))
        => CacheUntouched

C15_FailedFetch ==
    (GotException \/ (GotResponse /\ last.net.status \in 400..599))
        => CacheUntouched

C15_Witness ==
    /\ CorruptCache
    /\ GotException
    /\ Returned(None)
    /\ Exists(files, last.path)
    /\ files[last.path] = last.pre[last.path]

(***************************************************************************)
(* C16: the absence value is distinguishable from every payload.  A call   *)
(* that returns, returns None exactly when its fetch failed (it issued a   *)
(* GET that did not end in a 2xx response with a decodable body); a cache  *)
(* hit and a successful fetch never return None.                           *)
(***************************************************************************)
C16_AbsenceDistinct ==
    (ACall /\ last.ret.kind = "return") =>
        (Returned(None) <=> (last.gets = 1 /\ ~GotDecodable2xx))

(***************************************************************************)
(* C17: single attempt per call.  Every step of a call moves it forward in *)
(* the order check, read, GET, directory, open, write, return (the writes  *)
(* of one save each take a further piece of the text); the GET follows a   *)
(* missing cache file or a cache file that did not decode, and the save    *)
(* follows a GET that raise_for_status let through.                        *)
(***************************************************************************)
Rank(pc) ==
    CASE pc = "start" -> 0 [] pc = "read" -> 1 [] pc = "get" -> 2
      [] pc = "checkdir" -> 3 [] pc = "makedirs" -> 4 [] pc = "open" -> 5
      [] pc = "write" -> 6 [] pc = "done" -> 7

ServedFromFile(p) ==
    /\ procs[p].pc = "done"
    /\ procs[p].gets = 0
    /\ procs[p].ret.kind = "return"

C20_NoHalfWrittenRead ==
    \A p \in Procs :
        ServedFromFile(p) =>
            \E q \in Procs \ {p} :
                /\ procs[q].gets = 1
                /\ procs[q].net.kind = "response"
                /\ Decoded(procs[q].fn, procs[q].net.body).ok
                /\ procs[p].ret =
                       Return(Decoded(procs[q].fn, procs[q].net.body).val)

(***************************************************************************)
(* C21: format separation in api_handler.  A call of one fetcher uses the  *)
(* file named by the hash of its URL and the extension of its format       *)
(* (.json or .rdb), and it changes nothing for the other fetcher: what a   *)
(* call of the other fetcher returns, for any URL and any answer of the    *)
(* network, is the same after the call as before it.                       *)
(***************************************************************************)
OtherFetcher(fn, fs, ds, url, net) ==
    IF fn = JsonFn THEN get_usgs_rdb_data(fs, ds, url, net)
    ELSE get_usgs_json_data(fs, ds, url, net)

OwnCacheFile ==
    last'.path = [dir |-> "cache",
                  name |-> <<url_hash(last'.url), Ext(last'.fn)>>]

OtherFormatUnchanged ==
    \A url \in Urls, net \in HistoryNetOutcomes :
        OtherFetcher(last'.fn, files', dirs', url, net).ret
            = OtherFetcher(last'.fn, files, dirs, url, net).ret

C21_FormatSeparation ==
    [][OwnCacheFile /\ OtherFormatUnchanged]_vars

\* the same with the cache directory in place before the call
C21_WithDirectory ==
    [][("cache" \in dirs) => (OwnCacheFile /\ OtherFormatUnchanged)]_vars

=============================================================================
